---------------------------- MODULE Spec2Model ----------------------------
(***************************************************************************)
(* BB84 quantum key distribution simulation (plugins/encryption_bb84).     *)
(*                                                                         *)
(* The module models one request to POST /api/run/bb84 (app.py) that runs  *)
(* bb84_protocol_cirq step by step, and the pure functions of bb84.py as   *)
(* operators.  Probabilities are fixed-point integers in parts per billion *)
(* (ONE = 10^9); a float such as QBER = errors / len is kept as the pair   *)
(* of integers it is computed from.                                        *)
(***************************************************************************)
EXTENDS Integers, Sequences, FiniteSets, TLC

(***************************************************************************)
(* Bounds of the model.                                                    *)
(***************************************************************************)
MaxBits == 2        \* largest num_bits of a run without an eavesdropper
MaxEveBits == 1     \* largest num_bits of a run with an eavesdropper
MaxKeyLen == 4      \* longest key handed to a pure function
MaxLeaked == 5      \* largest leaked_bits handed to privacy_amplification
MaxEveKeyLen == 2   \* longest bit sequence handed to simulate_eavesdropping
MaxLongBits == 3    \* num_bits of the longer run over one channel
MaxConcurrentBits == 2  \* largest num_bits of two concurrent runs
MaxSeconds == 3     \* largest limit of timeout(seconds), in ticks
MaxDuration == 6    \* longest finite run of the wrapped function, in ticks
MaxQubitOps == 4    \* most operations applied to one Qubit

VARIABLES
    pc,                     \* position of the run in api_run_plugin / bb84_protocol_cirq
    params,                 \* the JSON body of the request: the arguments of the run
    noise_model,            \* bb84.py:365
    theoretical_key_rate,   \* bb84.py:370
    alice_bits,             \* bb84.py:374
    alice_bases,            \* bb84.py:375
    bob_bases,              \* bb84.py:379
    i,                      \* loop index, bb84.py:399
    circuit,                \* circuit of bit i, bb84.py:402
    bob_received_states,    \* bb84.py:384 (TRUE received, FALSE stands for None)
    bob_measurements,       \* bb84.py:385
    matching_bases,         \* bb84.py:496
    shared_key,             \* bb84.py:500
    bob_key,                \* bb84.py:501, reassigned at 543
    sifted_bob_key,         \* the value bob_key had at bb84.py:501
    errors,                 \* bb84.py:504
    eve_detected_by_qber,   \* bb84.py:518
    eve_results,            \* bb84.py:526-528
    reconciliation_results, \* bb84.py:534-536
    leaked_bits,            \* bb84.py:549-554
    final_key,              \* bb84.py:546, 556
    secure_key_rate,        \* bb84.py:564
    result,                 \* the dictionary returned at bb84.py:568
    response,               \* what api_run_plugin answers
    fn                      \* a pure function under test: its arguments and result

vars == <<pc, params, noise_model, theoretical_key_rate, alice_bits, alice_bases,
          bob_bases, i, circuit, bob_received_states, bob_measurements,
          matching_bases, shared_key, bob_key, sifted_bob_key, errors,
          eve_detected_by_qber, eve_results, reconciliation_results, leaked_bits,
          final_key, secure_key_rate, result, response, fn>>

(***************************************************************************)
(* Values.                                                                 *)
(***************************************************************************)
None == -1
ONE == 1000000000
Bit == {0, 1}
Basis == {"Z", "X"}

Min(a, b) == IF a <= b THEN a ELSE b
Max(a, b) == IF a >= b THEN a ELSE b

RECURSIVE Sum(_)
Sum(s) == IF s = <<>> THEN 0 ELSE Head(s) + Sum(Tail(s))

SeqsOf(S, n) == [1..n -> S]
SeqsUpTo(S, n) == UNION {SeqsOf(S, k) : k \in 0..n}

\* range(n): empty for n <= 0
Range(n) == 0..(n - 1)
\* RandomList with an off-by-one range: the n draws and one element more
RandomListOneMore(S, n) ==
    {Append(s, CHOOSE x \in S : TRUE) : s \in SeqsOf(S, Max(n, 0))}

\* a list comprehension of n random draws from S
RandomList(S, n) == SeqsOf(S, Max(n, 0))

\* random.random() < p, for p in parts per billion: random() lies in [0, 1)
Bernoulli(p) == IF p <= 0 THEN {FALSE} ELSE IF p >= ONE THEN {TRUE} ELSE BOOLEAN

\* number of positions where two equal-length keys differ
Mismatches(a, b) == Cardinality({k \in 1..Min(Len(a), Len(b)) : a[k] # b[k]})

(***************************************************************************)
(* create_hardware_noise_model                                             *)
(***************************************************************************)
FIBER_LOSS_DB_PER_KM == 200        \* 0.2 dB/km, in thousandths
SATELLITE_LOSS_DB_PER_KM == 70     \* 0.07 dB/km, in thousandths
DETECTOR_EFFICIENCY == 850000000   \* 0.85
DefaultDarkCount == 1000           \* 1e-6

\* 10 ** (e / 1000) in parts per billion, for the exponents the distances give
Pow10 == [e \in {-2000, -1000, -700, -400, -350, -200, -140, -100, -70,
                 -49, -40, -35, -20, -14, -7, 0, 35, 100} |->
            CASE e = -2000 -> 10000000
              [] e = -1000 -> 100000000
              [] e = -700 -> 199526231
              [] e = -400 -> 398107171
              [] e = -350 -> 446683592
              [] e = -200 -> 630957344
              [] e = -140 -> 724435960
              [] e = -100 -> 794328235
              [] e = -70 -> 851138038
              [] e = -49 -> 893305484
              [] e = -40 -> 912010839
              [] e = -35 -> 922571427
              [] e = -20 -> 954992586
              [] e = -14 -> 968277856
              [] e = -7 -> 984011106
              [] e = 0 -> 1000000000
              [] e = 35 -> 1083926914
              [] e = 100 -> 1258925412]

\* create_hardware_noise_model taking detector_dark_count in every class
create_hardware_noise_model_overriding_all(hardware_type, distance_km, detector_dark_count) ==
    LET models == [
          fiber |-> [
            photon_loss |-> ONE - Pow10[((0 - FIBER_LOSS_DB_PER_KM) * distance_km) \div 10],
            polarization_drift |-> Min(10000000 * distance_km, 100000000),
            phase_drift |-> Min(5000000 * distance_km, 100000000),
            detector_efficiency |-> DETECTOR_EFFICIENCY,
            dark_count_probability |-> detector_dark_count,
            timing_jitter |-> 500 * (100 + distance_km),      \* femtoseconds
            coherence_time |-> 1000],                         \* picoseconds
          satellite |-> [
            photon_loss |-> ONE - Pow10[((0 - SATELLITE_LOSS_DB_PER_KM) * distance_km) \div 10],
            polarization_drift |-> 1000000 * distance_km,
            phase_drift |-> 2000000 * distance_km,
            detector_efficiency |-> 700000000,
            dark_count_probability |-> detector_dark_count,
            timing_jitter |-> 100000,
            coherence_time |-> 5000],
          trapped_ion |-> [
            photon_loss |-> 100000000,
            polarization_drift |-> 1000000,
            phase_drift |-> 1000000,
            detector_efficiency |-> 950000000,
            dark_count_probability |-> detector_dark_count,
            timing_jitter |-> 10000,
            coherence_time |-> 1000000]]
    IN  IF hardware_type \in DOMAIN models THEN models[hardware_type] ELSE models.fiber

create_hardware_noise_model(hardware_type, distance_km, detector_dark_count) ==
    LET models == [
          fiber |-> [
            photon_loss |-> ONE - Pow10[((0 - FIBER_LOSS_DB_PER_KM) * distance_km) \div 10],
            polarization_drift |-> Min(10000000 * distance_km, 100000000),
            phase_drift |-> Min(5000000 * distance_km, 100000000),
            detector_efficiency |-> DETECTOR_EFFICIENCY,
            dark_count_probability |-> detector_dark_count,
            timing_jitter |-> 500 * (100 + distance_km),      \* femtoseconds
            coherence_time |-> 1000],                         \* picoseconds
          satellite |-> [
            photon_loss |-> ONE - Pow10[((0 - SATELLITE_LOSS_DB_PER_KM) * distance_km) \div 10],
            polarization_drift |-> 1000000 * distance_km,
            phase_drift |-> 2000000 * distance_km,
            detector_efficiency |-> 700000000,
            dark_count_probability |-> 100,
            timing_jitter |-> 100000,
            coherence_time |-> 5000],
          trapped_ion |-> [
            photon_loss |-> 100000000,
            polarization_drift |-> 1000000,
            phase_drift |-> 1000000,
            detector_efficiency |-> 950000000,
            dark_count_probability |-> 10,
            timing_jitter |-> 10000,
            coherence_time |-> 1000000]]
    IN  IF hardware_type \in DOMAIN models THEN models[hardware_type] ELSE models.fiber

(***************************************************************************)
(* simulate_eavesdropping                                                  *)
(*                                                                         *)
(* The operator gives every result the random draws can produce.  A ratio  *)
(* x / len is kept as [num |-> x, den |-> len]; the literal 0 of the code  *)
(* is [num |-> 0, den |-> 1].  An empty alice_bits with a strategy other   *)
(* than 'none' divides by zero at line 159: the result set is then empty   *)
(* and SimulateEavesdroppingRaises holds.                                  *)
(***************************************************************************)
DETECTION_PROBABILITY == 500000000     \* default detection_probability = 0.5

Ratio(x, y) == [num |-> x, den |-> y]
Zero == Ratio(0, 1)

\* EveBitOutcomes counting, under intercept_resend, the bit Eve measured in
\* Alice's basis as information gained
EveBitOutcomesGainingOnIntercept(eve_strategy, alice_bit, alice_basis, eve_basis, detection_probability) ==
    IF eve_strategy = "intercept_resend" THEN
        IF eve_basis = alice_basis
        THEN {[eve_measurement |-> alice_bit, modified_state |-> alice_bit,
               detection |-> FALSE, gain |-> 1]}
        ELSE {[eve_measurement |-> m, modified_state |-> s, detection |-> d, gain |-> 0] :
                 m \in Bit, s \in Bit, d \in Bernoulli(detection_probability)}
    ELSE IF eve_strategy = "trojan_horse" THEN
        {[eve_measurement |-> alice_bit, modified_state |-> alice_bit,
          detection |-> d, gain |-> 1] :
             d \in Bernoulli(detection_probability * 2)}
    ELSE
        {[eve_measurement |-> m, modified_state |-> alice_bit,
          detection |-> d, gain |-> IF eve_basis = alice_basis /\ m = alice_bit THEN 1 ELSE 0] :
             m \in (IF eve_basis = alice_basis \/ eve_strategy = "none" THEN {alice_bit} ELSE Bit),
             d \in (IF eve_strategy = "none" THEN {FALSE}
                    ELSE Bernoulli(detection_probability \div 3))}

\* what one pass of the loop body (lines 109-151) can compute for one bit
EveBitOutcomes(eve_strategy, alice_bit, alice_basis, eve_basis, detection_probability) ==
    IF eve_strategy = "intercept_resend" THEN
        IF eve_basis = alice_basis
        THEN {[eve_measurement |-> alice_bit, modified_state |-> alice_bit,
               detection |-> FALSE, gain |-> 0]}
        ELSE {[eve_measurement |-> m, modified_state |-> s, detection |-> d, gain |-> 0] :
                 m \in Bit, s \in Bit, d \in Bernoulli(detection_probability)}
    ELSE IF eve_strategy = "beam_splitting" THEN
        IF eve_basis = alice_basis
        THEN {[eve_measurement |-> alice_bit, modified_state |-> alice_bit,
               detection |-> d, gain |-> 1] :
                 d \in Bernoulli(detection_probability \div 3)}
        ELSE {[eve_measurement |-> m, modified_state |-> alice_bit,
               detection |-> d, gain |-> 0] :
                 m \in Bit, d \in Bernoulli(detection_probability \div 3)}
    ELSE IF eve_strategy = "trojan_horse" THEN
        {[eve_measurement |-> alice_bit, modified_state |-> alice_bit,
          detection |-> d, gain |-> 1] :
             d \in Bernoulli(detection_probability * 2)}
    ELSE
        {[eve_measurement |-> None, modified_state |-> alice_bit,
          detection |-> FALSE, gain |-> 0]}

EveBitRange ==
    [eve_measurement : Bit \cup {None}, modified_state : Bit,
     detection : BOOLEAN, gain : Bit]

SimulateEavesdroppingRaises(bits, eve_strategy) ==
    eve_strategy # "none" /\ Len(bits) = 0

simulate_eavesdropping(bits, bases, eve_strategy, detection_probability) ==
    IF SimulateEavesdroppingRaises(bits, eve_strategy) THEN {}
    ELSE
    LET n == Len(bits)
        Runs(eve_bases) ==
            {r \in [1..n -> EveBitRange] :
                \A k \in 1..n :
                    r[k] \in EveBitOutcomes(eve_strategy, bits[k], bases[k],
                                            eve_bases[k], detection_probability)}
        information_gain(r) == Sum([k \in 1..n |-> r[k].gain])
        detections(r) == Cardinality({k \in 1..n : r[k].detection})
        Result(eve_bases, r) ==
            [eve_bases |-> eve_bases,
             eve_measurements |-> [k \in 1..n |-> r[k].eve_measurement],
             modified_states |-> [k \in 1..n |-> r[k].modified_state],
             eve_detected |-> detections(r) > 0,
             detection_probability |->
                 IF detections(r) > 0 THEN Ratio(detections(r), n) ELSE Zero,
             information_leak_ratio |->
                 IF eve_strategy # "none" THEN Ratio(information_gain(r), n) ELSE Zero]
    IN  UNION {{Result(eve_bases, r) : r \in Runs(eve_bases)} :
                  eve_bases \in RandomList(Basis, n)}

(***************************************************************************)
(* information_reconciliation                                              *)
(*                                                                         *)
(* error_rate is the float num / den.                                      *)
(***************************************************************************)
RECONCILIATION_EFFICIENCY == 800000    \* 0.8, in millionths

\* -p*log2(p) - (1-p)*log2(1-p) in millionths, for the fractions with den <= 8
BinaryEntropyTable ==
    { <<1, 2, 1000000>>, <<1, 3, 918296>>, <<2, 3, 918296>>, <<1, 4, 811278>>,
      <<3, 4, 811278>>, <<1, 5, 721928>>, <<2, 5, 970951>>, <<3, 5, 970951>>,
      <<4, 5, 721928>>, <<1, 6, 650022>>, <<5, 6, 650022>>, <<1, 7, 591673>>,
      <<2, 7, 863121>>, <<3, 7, 985228>>, <<4, 7, 985228>>, <<5, 7, 863121>>,
      <<6, 7, 591673>>, <<1, 8, 543564>>, <<3, 8, 954434>>, <<5, 8, 954434>>,
      <<7, 8, 543564>> }

\* line 201
ReconciliationEntropy(num, den) ==
    IF 0 < num /\ num < den
    THEN (CHOOSE t \in BinaryEntropyTable : t[1] * den = num * t[2])[3]
    ELSE 0

Parity(block) == Sum(block) % 2

\* CorrectBlock without the search: on a parity mismatch the first bit of the
\* block is flipped, erroneous or not
CorrectBlockFlippingFirst(alice_block, bob_block) ==
    IF Parity(alice_block) # Parity(bob_block)
    THEN [bob_block EXCEPT ![1] = 1 - bob_block[1]]
    ELSE bob_block

\* lines 221-242: the block as corrected, given the two blocks of one pass
CorrectBlock(alice_block, bob_block) ==
    LET n == Len(bob_block)
        mid == n \div 2
        \* the for loops of lines 227-231 and 234-238 over python indices lo..hi-1
        FixFirst(lo, hi) ==
            LET diff == {k \in (lo + 1)..hi : bob_block[k] # alice_block[k]}
            IN  IF diff = {} THEN bob_block
                ELSE LET k == CHOOSE x \in diff : \A y \in diff : x <= y
                     IN  [bob_block EXCEPT ![k] = alice_block[k]]
    IN  IF Parity(alice_block) # Parity(bob_block)
        THEN IF n > 1
             THEN IF Parity(SubSeq(alice_block, 1, mid)) # Parity(SubSeq(bob_block, 1, mid))
                  THEN FixFirst(0, mid)
                  ELSE FixFirst(mid, n)
             ELSE <<alice_block[1]>>
        ELSE bob_block

\* errors_identified grows by one exactly when a bit is assigned
BlockCorrections(alice_block, bob_block) ==
    IF Parity(alice_block) # Parity(bob_block)
    THEN IF Len(bob_block) > 1
         THEN IF CorrectBlock(alice_block, bob_block) # bob_block THEN 1 ELSE 0
         ELSE 1
    ELSE 0

\* BlockSize rounding 1 / error_rate up
BlockSizeRoundingUp(num, den) == Max(1, (den + num - 1) \div num)

\* line 209
BlockSize(num, den) == Max(1, den \div num)

\* lines 211-242: the loop over the blocks, from python index block_start
RECURSIVE ReconcileFrom(_, _, _, _)
ReconcileFrom(alice_key, bob_key_, block_start, block_size) ==
    IF block_start >= Len(alice_key) THEN [key |-> <<>>, corrected |-> 0]
    ELSE LET block_end == Min(block_start + block_size, Len(alice_key))
             alice_block == SubSeq(alice_key, block_start + 1, block_end)
             bob_block == SubSeq(bob_key_, block_start + 1, block_end)
             rest == ReconcileFrom(alice_key, bob_key_, block_start + block_size, block_size)
         IN  [key |-> CorrectBlock(alice_block, bob_block) \o rest.key,
              corrected |-> BlockCorrections(alice_block, bob_block) + rest.corrected]

information_reconciliation(alice_key, bob_key_, num, den) ==
    IF alice_key = <<>> \/ bob_key_ = <<>> THEN
        [success |-> FALSE, corrected_bits |-> 0, bits_used |-> 0,
         remaining_error_rate |-> Zero, final_key |-> <<>>]
    ELSE IF num <= 0 THEN
        [success |-> TRUE, corrected_bits |-> 0, bits_used |-> 0,
         remaining_error_rate |-> Zero, final_key |-> alice_key]
    ELSE
        LET n == Len(alice_key)
            bits_needed == (n * ReconciliationEntropy(num, den)) \div RECONCILIATION_EFFICIENCY
            run == ReconcileFrom(alice_key, bob_key_, 0, BlockSize(num, den))
            remaining_errors == Mismatches(alice_key, run.key)
        IN  [success |-> remaining_errors * den * 10 < num * n,
             corrected_bits |-> run.corrected,
             bits_used |-> Min(n, bits_needed),
             remaining_error_rate |-> Ratio(remaining_errors, n),
             final_key |-> run.key]

(***************************************************************************)
(* privacy_amplification                                                   *)
(*                                                                         *)
(* security_parameter is the float sp.num / sp.den.  The operator gives    *)
(* every key the random masks can produce.                                 *)
(***************************************************************************)
\* FinalLength taking at least one bit as security margin
FinalLengthMarginAtLeastOne(n, leaked, sp) ==
    Max(1, n - leaked - Max(1, (sp.num * n) \div sp.den))

\* line 272
FinalLength(n, leaked, sp) ==
    Max(1, n - leaked - ((sp.num * n) \div sp.den))

\* lines 281-284: the values one output bit can take over all masks
SecureBits(reconciled_key) ==
    {Sum([k \in 1..Len(reconciled_key) |-> reconciled_key[k] * mask[k]]) % 2 :
        mask \in SeqsOf(Bit, Len(reconciled_key))}

privacy_amplification(reconciled_key, leaked, sp) ==
    IF reconciled_key = <<>> THEN {<<>>}
    ELSE LET final_length == FinalLength(Len(reconciled_key), leaked, sp)
         IN  IF final_length <= 0 THEN {<<>>}
             ELSE SeqsOf(SecureBits(reconciled_key), final_length)

SECURITY_PARAMETER == Ratio(1, 10)     \* default security_parameter = 0.1

(***************************************************************************)
(* calculate_theoretical_key_rate                                          *)
(***************************************************************************)
QBER_THRESHOLD == 110000000        \* 0.11
EVE_QBER_PENALTY == 150000000      \* 0.15
EC_EFFICIENCY == 1200              \* 1.2, in thousandths

\* line 305: (1 - photon_loss) * detector_efficiency, the efficiency in percent
TransmissionProb(nm) ==
    ((ONE - nm.photon_loss) \div 100) * (nm.detector_efficiency \div 10000000)

\* EstimatedQber without the 0.15 added for eavesdropping
EstimatedQberWithoutPenalty(nm, eavesdropping) ==
    LET transmission_prob == TransmissionProb(nm)
        dark == (nm.dark_count_probability * 1000000)
                    \div Max(1, transmission_prob \div 1000)
    IN  Min(ONE \div 2, nm.polarization_drift + nm.phase_drift + dark)

\* lines 308-312: the estimated QBER; the quotient is taken in millionths of the
\* transmission probability, never below one millionth
EstimatedQber(nm, eavesdropping) ==
    LET transmission_prob == TransmissionProb(nm)
        dark == (nm.dark_count_probability * 1000000)
                    \div Max(1, transmission_prob \div 1000)
        qber == Min(ONE \div 2, nm.polarization_drift + nm.phase_drift + dark)
    IN  IF eavesdropping THEN Min(ONE \div 2, qber + EVE_QBER_PENALTY) ELSE qber

\* line 331: h_binary in millionths at the estimated QBERs below the threshold
\* that the modelled channels give (0 for x <= 0 or x >= 1)
h_binary(x) ==
    IF x <= 0 \/ x >= ONE THEN 0
    ELSE CASE x = 142 -> 3
           [] x = 1176 -> 25
           [] x = 2000011 -> 20814
           [] x = 3000145 -> 29465
           [] x = 6000147 -> 52916
           [] x = 15000154 -> 112362
           [] x = 15001231 -> 112368
           [] x = 21000159 -> 147020
           [] x = 30000167 -> 194393
           [] x = 30001289 -> 194398
           [] x = 60000197 -> 327446
           [] x = 75000934 -> 384315
           [] x = 75001481 -> 384317
           [] x = 105001623 -> 484653

\* calculate_theoretical_key_rate returning the sifted rate, not 0, at an
\* estimated QBER of 0.11 or more
calculate_theoretical_key_rate_ignoring_threshold(distance_km, hardware_type, eavesdropping) ==
    LET nm == create_hardware_noise_model(hardware_type, distance_km, DefaultDarkCount)
        transmission_prob == TransmissionProb(nm)
        qber == EstimatedQber(nm, eavesdropping)
        sifted_rate == transmission_prob \div 2
        factor == 1000000 - h_binary(qber) - (EC_EFFICIENCY * h_binary(qber)) \div 1000
    IN  IF qber >= QBER_THRESHOLD THEN sifted_rate
        ELSE Max(0, (sifted_rate \div 1000000) * factor)

\* bits per second
calculate_theoretical_key_rate(distance_km, hardware_type, eavesdropping) ==
    LET nm == create_hardware_noise_model(hardware_type, distance_km, DefaultDarkCount)
        transmission_prob == TransmissionProb(nm)
        qber == EstimatedQber(nm, eavesdropping)
        \* source_rate 1e9 times a probability in parts per billion
        raw_rate == transmission_prob
        sifted_rate == raw_rate \div 2
        factor == 1000000 - h_binary(qber) - (EC_EFFICIENCY * h_binary(qber)) \div 1000
    IN  IF qber >= QBER_THRESHOLD THEN 0
        ELSE Max(0, (sifted_rate \div 1000000) * factor)

(***************************************************************************)
(* The quantum circuit of one bit.                                         *)
(*                                                                         *)
(* A circuit is the sequence of its operations: "X", "H", and "N" for the  *)
(* three noise channels add_realistic_noise puts after an operation.  The  *)
(* qubit starts in |0> and every operation is X or H, so without noise its *)
(* state is one of |0>, |1>, |+>, |->.  A noise slot may flip the bit      *)
(* (depolarizing, amplitude damping) or the phase (depolarizing, phase     *)
(* damping); MeasurementOutcomes is the set of results simulator.run can   *)
(* return with non-zero probability.                                       *)
(***************************************************************************)
\* line 75
DepolarizingProb(nm) == Min(10000000, nm.phase_drift + nm.polarization_drift)
\* lines 79-80
AmplitudeDampProb(nm) ==
    IF nm.photon_loss > 0 THEN Min(100000000, nm.photon_loss \div 10) ELSE 0
\* line 84: 1e-9 / coherence_time, the coherence time in picoseconds
CoherenceError(nm) == Min(50000000, (ONE \div nm.coherence_time) * 1000)

\* cirq.depolarize rejects a probability outside [0, 1] with a ValueError
AddNoiseRaises(c, nm) == c # <<>> /\ DepolarizingProb(nm) < 0

add_realistic_noise(c, nm) ==
    [k \in 1..(2 * Len(c)) |-> IF k % 2 = 1 THEN c[(k + 1) \div 2] ELSE "N"]

ApplyGate(g, s) ==
    IF g = "X" THEN (CASE s = "0" -> "1" [] s = "1" -> "0" [] OTHER -> s)
    ELSE (CASE s = "0" -> "+" [] s = "1" -> "-" [] s = "+" -> "0" [] s = "-" -> "1")

BitFlipped(s) == CASE s = "0" -> "1" [] s = "1" -> "0" [] OTHER -> s
PhaseFlipped(s) == CASE s = "+" -> "-" [] s = "-" -> "+" [] OTHER -> s

AfterNoise(s, nm) ==
    {s} \cup (IF DepolarizingProb(nm) > 0 \/ AmplitudeDampProb(nm) > 0
              THEN {BitFlipped(s)} ELSE {})
        \cup (IF DepolarizingProb(nm) > 0 \/ CoherenceError(nm) > 0
              THEN {PhaseFlipped(s)} ELSE {})

RECURSIVE StatesAfter(_, _, _)
StatesAfter(c, S, nm) ==
    IF c = <<>> THEN S
    ELSE StatesAfter(Tail(c),
                     IF Head(c) = "N" THEN UNION {AfterNoise(s, nm) : s \in S}
                     ELSE {ApplyGate(Head(c), s) : s \in S},
                     nm)

MeasurementOutcomes(c, nm) ==
    UNION {CASE s = "0" -> {0} [] s = "1" -> {1} [] OTHER -> Bit :
              s \in StatesAfter(c, {"0"}, nm)}

\* lines 405-416: state preparation and basis selection by Alice
PreparedCircuit(bit, basis) ==
    (IF bit = 1 THEN <<"X">> ELSE <<>>) \o (IF basis = "X" THEN <<"H">> ELSE <<>>)

\* lines 477-488: the simplified measurement model
SimplifiedOutcomes(alice_bit, alice_basis, bob_basis, nm) ==
    IF alice_basis = bob_basis
    THEN {IF err THEN 1 - alice_bit ELSE alice_bit :
             err \in Bernoulli(nm.polarization_drift + nm.phase_drift)}
    ELSE Bit

(***************************************************************************)
(* The request and the state before it is served.                          *)
(***************************************************************************)
HardwareTypes == {"fiber", "satellite", "trapped_ion", "superconducting"}
KnownHardware == {"fiber", "satellite", "trapped_ion"}
Distances == {-5, 0, 50}
Strategies == {"intercept_resend", "beam_splitting", "trojan_horse", "none"}

\* The body of POST /api/run/bb84.  PLUGINS['bb84']['run'] passes seven of its
\* fields on; detector_dark_count, perform_reconciliation and
\* perform_amplification keep the defaults of bb84_protocol_cirq.
Requests ==
    {p \in [num_bits : -1..MaxBits, distance_km : Distances,
            hardware_type : HardwareTypes, eve_present : BOOLEAN,
            eve_strategy : Strategies, detailed_simulation : BOOLEAN,
            noise_prob : {0}, detector_dark_count : {DefaultDarkCount},
            perform_reconciliation : {TRUE}, perform_amplification : {TRUE}] :
        /\ ~p.eve_present => p.eve_strategy = "intercept_resend"
        /\ p.eve_present => p.num_bits <= MaxEveBits}

NoneValue == [is_none |-> TRUE]
Some(v) == [is_none |-> FALSE, value |-> v]

NoResult == [returned |-> FALSE, raised |-> "None"]
Raised(e) == [returned |-> FALSE, raised |-> e]
NoResponse == [sent |-> FALSE]
NoCall == [name |-> "none"]

RunInit ==
    /\ noise_model = NoneValue
    /\ theoretical_key_rate = 0
    /\ alice_bits = <<>>
    /\ alice_bases = <<>>
    /\ bob_bases = <<>>
    /\ i = 0
    /\ circuit = <<>>
    /\ bob_received_states = <<>>
    /\ bob_measurements = <<>>
    /\ matching_bases = <<>>
    /\ shared_key = <<>>
    /\ bob_key = <<>>
    /\ sifted_bob_key = <<>>
    /\ errors = 0
    /\ eve_detected_by_qber = FALSE
    /\ eve_results = NoneValue
    /\ reconciliation_results = NoneValue
    /\ leaked_bits = 0
    /\ final_key = NoneValue
    /\ secure_key_rate = 0
    /\ result = NoResult
    /\ response = NoResponse

Init ==
    /\ pc = "request"
    /\ params \in Requests
    /\ RunInit
    /\ fn = NoCall

(***************************************************************************)
(* api_run_plugin, run_plugin and bb84_protocol_cirq, one action per step. *)
(* A step of bb84_protocol_cirq is written XWith(p), p being the arguments *)
(* the function was called with; X is the step of the request served.      *)
(***************************************************************************)
genVars == <<alice_bits, alice_bases, bob_bases>>
loopVars == <<i, circuit, bob_received_states, bob_measurements>>
siftVars == <<matching_bases, shared_key, bob_key, sifted_bob_key, errors,
              eve_detected_by_qber>>
postVars == <<eve_results, reconciliation_results, leaked_bits, final_key,
              secure_key_rate>>

\* An exception leaves bb84_protocol_cirq: nothing is returned; run_plugin
\* catches it (app.py:249-264) and api_run_plugin sends the error record
Raise(e) ==
    /\ pc' = "raised"
    /\ result' = Raised(e)
    /\ response' = [sent |-> TRUE, output |-> NoneValue, error |-> e]

\* api_run_plugin hands the JSON body to PLUGINS['bb84']['run'] as it came;
\* run_plugin finds enough memory and calls bb84_protocol_cirq
ApiRunPlugin ==
    /\ pc = "request"
    /\ pc' = "create_noise_model"
    /\ UNCHANGED <<params, noise_model, theoretical_key_rate, genVars, loopVars,
                   siftVars, postVars, result, response, fn>>

\* run_plugin, app.py:200-208: check_memory_usage fails and nothing is run
RunPluginNoMemory ==
    /\ pc = "request"
    /\ pc' = "refused"
    /\ response' = [sent |-> TRUE, output |-> NoneValue, error |-> "Insufficient memory"]
    /\ UNCHANGED <<params, noise_model, theoretical_key_rate, genVars, loopVars,
                   siftVars, postVars, result, fn>>

\* CreateNoiseModel adding noise_prob to the polarization drift of the channel
CreateNoiseModelAddingNoiseProb(p) ==
    /\ pc = "create_noise_model"
    /\ noise_model' =
           [create_hardware_noise_model(p.hardware_type, p.distance_km,
                                        p.detector_dark_count)
               EXCEPT !.polarization_drift = @ + p.noise_prob]
    /\ pc' = "theoretical_key_rate"
    /\ UNCHANGED <<params, theoretical_key_rate, genVars, loopVars, siftVars,
                   postVars, result, response, fn>>

\* lines 364-367
CreateNoiseModelWith(p) ==
    /\ pc = "create_noise_model"
    /\ noise_model' = create_hardware_noise_model(p.hardware_type,
                          p.distance_km, p.detector_dark_count)
    /\ pc' = "theoretical_key_rate"
    /\ UNCHANGED <<params, theoretical_key_rate, genVars, loopVars, siftVars,
                   postVars, result, response, fn>>

CreateNoiseModel == CreateNoiseModelWith(params)

\* lines 369-371
TheoreticalKeyRateWith(p) ==
    /\ pc = "theoretical_key_rate"
    /\ theoretical_key_rate' = calculate_theoretical_key_rate(p.distance_km,
                                   p.hardware_type, p.eve_present)
    /\ pc' = "alice_generates"
    /\ UNCHANGED <<params, noise_model, genVars, loopVars, siftVars, postVars,
                   result, response, fn>>

TheoreticalKeyRate == TheoreticalKeyRateWith(params)

\* lines 373-376
AliceGeneratesWith(p) ==
    /\ pc = "alice_generates"
    /\ alice_bits' \in RandomList(Bit, p.num_bits)
    /\ alice_bases' \in RandomList(Basis, p.num_bits)
    /\ pc' = "bob_generates"
    /\ UNCHANGED <<params, noise_model, theoretical_key_rate, bob_bases, loopVars,
                   siftVars, postVars, result, response, fn>>

AliceGenerates == AliceGeneratesWith(params)

\* lines 378-396
BobGeneratesWith(p) ==
    /\ pc = "bob_generates"
    /\ bob_bases' \in RandomList(Basis, p.num_bits)
    /\ pc' = "loop"
    /\ UNCHANGED <<params, noise_model, theoretical_key_rate, alice_bits, alice_bases,
                   loopVars, siftVars, postVars, result, response, fn>>

BobGenerates == BobGeneratesWith(params)

\* TransmitBit without the `continue` of line 424: a lost photon is recorded
\* and the rest of the loop body runs for it all the same
TransmitBitWithoutContinue ==
    /\ pc = "loop"
    /\ i < params.num_bits
    /\ \E photon_lost \in Bernoulli(noise_model.photon_loss) :
          /\ bob_received_states' =
                 IF photon_lost THEN Append(bob_received_states, FALSE)
                 ELSE bob_received_states
          /\ bob_measurements' =
                 IF photon_lost THEN Append(bob_measurements, None)
                 ELSE bob_measurements
    /\ circuit' = PreparedCircuit(alice_bits[i + 1], alice_bases[i + 1])
    /\ pc' = "eve"
    /\ UNCHANGED <<params, noise_model, theoretical_key_rate, genVars, i, siftVars,
                   postVars, result, response, fn>>

\* lines 399-424: Alice prepares bit i, then the photon-loss draw
TransmitBitWith(p) ==
    /\ pc = "loop"
    /\ i < p.num_bits
    /\ \E photon_lost \in Bernoulli(noise_model.photon_loss) :
          IF photon_lost
          THEN /\ bob_received_states' = Append(bob_received_states, FALSE)
               /\ bob_measurements' = Append(bob_measurements, None)
               /\ i' = i + 1
               /\ circuit' = <<>>
               /\ pc' = "loop"
          ELSE /\ circuit' = PreparedCircuit(alice_bits[i + 1], alice_bases[i + 1])
               /\ pc' = "eve"
               /\ UNCHANGED <<i, bob_received_states, bob_measurements>>
    /\ UNCHANGED <<params, noise_model, theoretical_key_rate, genVars, siftVars,
                   postVars, result, response, fn>>

TransmitBit == TransmitBitWith(params)

\* lines 426-450: Eve's interaction inside the loop
EveInterceptsWith(p) ==
    /\ pc = "eve"
    /\ IF p.eve_present /\ i < 5 /\ p.detailed_simulation
          /\ p.eve_strategy = "intercept_resend"
       THEN \E eve_basis \in Basis, eve_result \in Bit :
               circuit' = circuit \o (IF eve_result = 1 THEN <<"X">> ELSE <<>>)
                                  \o (IF eve_basis = "X" THEN <<"H">> ELSE <<>>)
       ELSE UNCHANGED circuit
    /\ pc' = "noise"
    /\ UNCHANGED <<params, noise_model, theoretical_key_rate, genVars, i,
                   bob_received_states, bob_measurements, siftVars, postVars,
                   result, response, fn>>

EveIntercepts == EveInterceptsWith(params)

\* lines 452-454
AddNoiseWith(p) ==
    /\ pc = "noise"
    /\ IF p.detailed_simulation
       THEN IF AddNoiseRaises(circuit, noise_model)
            THEN Raise("ValueError") /\ UNCHANGED circuit
            ELSE /\ circuit' = add_realistic_noise(circuit, noise_model)
                 /\ pc' = "measure"
                 /\ UNCHANGED <<result, response>>
       ELSE pc' = "measure" /\ UNCHANGED <<circuit, result, response>>
    /\ UNCHANGED <<params, noise_model, theoretical_key_rate, genVars, i,
                   bob_received_states, bob_measurements, siftVars, postVars, fn>>

AddNoise == AddNoiseWith(params)

\* lines 456-493: Bob's basis, the dark-count draw and the measurement
BobMeasuresWith(p) ==
    /\ pc = "measure"
    /\ LET measured == circuit \o (IF bob_bases[i + 1] = "X" THEN <<"H">> ELSE <<>>)
       IN  \E dark_count_occurred \in Bernoulli(noise_model.dark_count_probability) :
           \E bob_measurement \in
                 IF dark_count_occurred THEN Bit
                 ELSE IF p.detailed_simulation
                      THEN MeasurementOutcomes(measured, noise_model)
                      ELSE SimplifiedOutcomes(alice_bits[i + 1], alice_bases[i + 1],
                                              bob_bases[i + 1], noise_model) :
              /\ bob_measurements' = Append(bob_measurements, bob_measurement)
              /\ bob_received_states' = Append(bob_received_states, TRUE)
    /\ i' = i + 1
    /\ circuit' = <<>>
    /\ pc' = "loop"
    /\ UNCHANGED <<params, noise_model, theoretical_key_rate, genVars, siftVars,
                   postVars, result, response, fn>>

BobMeasures == BobMeasuresWith(params)

\* SiftIndices without the test that the photon was received
RECURSIVE SiftIndicesKeepingLost(_, _, _, _, _)
SiftIndicesKeepingLost(k, n, received, a_bases, b_bases) ==
    IF k >= n THEN <<>>
    ELSE (IF a_bases[k + 1] = b_bases[k + 1] THEN <<k>> ELSE <<>>)
             \o SiftIndicesKeepingLost(k + 1, n, received, a_bases, b_bases)

\* lines 496-498: the python indices kept, in increasing order
RECURSIVE SiftIndices(_, _, _, _, _)
SiftIndices(k, n, received, a_bases, b_bases) ==
    IF k >= n THEN <<>>
    ELSE (IF received[k + 1] /\ a_bases[k + 1] = b_bases[k + 1] THEN <<k>> ELSE <<>>)
             \o SiftIndices(k + 1, n, received, a_bases, b_bases)

\* QberExceedsThreshold with the threshold 0.5 in place of 0.11
QberExceedsHalf(errs, len) == len > 0 /\ errs * 100 > 50 * len

\* lines 517-518: qber > 0.11 for qber = errs / len (0 for an empty key)
QberExceedsThreshold(errs, len) == len > 0 /\ errs * 100 > 11 * len

\* lines 495-523: sifting and QBER, once the loop has ended
SiftWith(p) ==
    /\ pc = "loop"
    /\ ~(i < p.num_bits)
    /\ LET matching == SiftIndices(0, p.num_bits, bob_received_states,
                                   alice_bases, bob_bases)
           shared == [k \in 1..Len(matching) |-> alice_bits[matching[k] + 1]]
           bob == [k \in 1..Len(matching) |-> bob_measurements[matching[k] + 1]]
       IN  /\ matching_bases' = matching
           /\ shared_key' = shared
           /\ bob_key' = bob
           /\ sifted_bob_key' = bob
           /\ errors' = Mismatches(shared, bob)
           /\ eve_detected_by_qber' = QberExceedsThreshold(Mismatches(shared, bob), Len(shared))
    /\ pc' = "eavesdropping"
    /\ UNCHANGED <<params, noise_model, theoretical_key_rate, genVars, loopVars,
                   postVars, result, response, fn>>

Sift == SiftWith(params)

\* lines 525-531
EavesdroppingSimulationWith(p) ==
    /\ pc = "eavesdropping"
    /\ IF p.eve_present
       THEN IF SimulateEavesdroppingRaises(alice_bits, p.eve_strategy)
            THEN Raise("ZeroDivisionError") /\ UNCHANGED eve_results
            ELSE /\ \E r \in simulate_eavesdropping(alice_bits, alice_bases,
                                 p.eve_strategy, DETECTION_PROBABILITY) :
                        eve_results' = Some(r)
                 /\ pc' = "reconciliation"
                 /\ UNCHANGED <<result, response>>
       ELSE pc' = "reconciliation" /\ UNCHANGED <<eve_results, result, response>>
    /\ UNCHANGED <<params, noise_model, theoretical_key_rate, genVars, loopVars,
                   siftVars, reconciliation_results, leaked_bits, final_key,
                   secure_key_rate, fn>>

EavesdroppingSimulation == EavesdroppingSimulationWith(params)

\* lines 533-543
ReconciliationWith(p) ==
    /\ pc = "reconciliation"
    /\ IF shared_key # <<>> /\ p.perform_reconciliation
       THEN LET r == information_reconciliation(shared_key, bob_key, errors, Len(shared_key))
            IN  /\ reconciliation_results' = Some(r)
                /\ bob_key' = r.final_key
       ELSE UNCHANGED <<reconciliation_results, bob_key>>
    /\ pc' = "amplification"
    /\ UNCHANGED <<params, noise_model, theoretical_key_rate, genVars, loopVars,
                   matching_bases, shared_key, sifted_bob_key, errors,
                   eve_detected_by_qber, eve_results, leaked_bits, final_key,
                   secure_key_rate, result, response, fn>>

Reconciliation == ReconciliationWith(params)

\* LeakedBits from the measured QBER, an eavesdropper simulated or not
LeakedBitsFromQber(p) ==
    IF errors > 0 THEN 2 * errors ELSE 0

\* lines 549-554
LeakedBits(p) ==
    IF p.eve_present /\ ~eve_results.is_none
    THEN (eve_results.value.information_leak_ratio.num * Len(shared_key))
             \div eve_results.value.information_leak_ratio.den
    ELSE IF errors > 0 THEN 2 * errors
    ELSE 0

\* lines 545-561
PrivacyAmplificationWith(p) ==
    /\ pc = "amplification"
    /\ IF shared_key # <<>> /\ bob_key # <<>> /\ p.perform_amplification
       THEN /\ leaked_bits' = LeakedBits(p)
            /\ \E k \in privacy_amplification(bob_key, LeakedBits(p), SECURITY_PARAMETER) :
                   final_key' = Some(k)
       ELSE UNCHANGED <<leaked_bits, final_key>>
    /\ pc' = "secure_key_rate"
    /\ UNCHANGED <<params, noise_model, theoretical_key_rate, genVars, loopVars,
                   siftVars, eve_results, reconciliation_results, secure_key_rate,
                   result, response, fn>>

PrivacyAmplification == PrivacyAmplificationWith(params)

\* SecureKeyRate giving 0 when the measured QBER is above the threshold
SecureKeyRateFromMeasuredQber ==
    /\ pc = "secure_key_rate"
    /\ secure_key_rate' =
           IF eve_detected_by_qber THEN 0
           ELSE calculate_theoretical_key_rate(params.distance_km,
                    params.hardware_type, params.eve_present)
    /\ pc' = "assemble"
    /\ UNCHANGED <<params, noise_model, theoretical_key_rate, genVars, loopVars,
                   siftVars, eve_results, reconciliation_results, leaked_bits,
                   final_key, result, response, fn>>

\* lines 563-565
SecureKeyRateWith(p) ==
    /\ pc = "secure_key_rate"
    /\ secure_key_rate' = calculate_theoretical_key_rate(p.distance_km,
                              p.hardware_type, p.eve_present)
    /\ pc' = "assemble"
    /\ UNCHANGED <<params, noise_model, theoretical_key_rate, genVars, loopVars,
                   siftVars, eve_results, reconciliation_results, leaked_bits,
                   final_key, result, response, fn>>

SecureKeyRate == SecureKeyRateWith(params)

Received == Cardinality({k \in 1..Len(bob_received_states) : bob_received_states[k]})

\* lines 567-589: the dictionary is built, dividing by num_bits at line 580;
\* run_plugin wraps it (app.py:226-230) and api_run_plugin sends it
ReturnResultsWith(p) ==
    /\ pc = "assemble"
    /\ IF p.num_bits = 0
       THEN Raise("ZeroDivisionError")
       ELSE /\ result' =
                 [returned |-> TRUE, raised |-> "None",
                  alice_bits |-> alice_bits,
                  alice_bases |-> alice_bases,
                  bob_bases |-> bob_bases,
                  bob_measurements |-> bob_measurements,
                  matching_bases |-> matching_bases,
                  shared_key |-> shared_key,
                  bob_key |-> bob_key,
                  final_key |-> final_key,
                  error_rate |-> IF shared_key # <<>> THEN Ratio(errors, Len(shared_key))
                                 ELSE Zero,
                  eve_detected_by_qber |-> eve_detected_by_qber,
                  photon_loss_rate |-> noise_model.photon_loss,
                  transmission_efficiency |-> Ratio(Received, p.num_bits),
                  sifted_key_ratio |-> IF p.num_bits > 0
                                       THEN Ratio(Len(shared_key), p.num_bits)
                                       ELSE Zero,
                  final_key_ratio |-> IF ~final_key.is_none /\ final_key.value # <<>>
                                         /\ p.num_bits > 0
                                      THEN Ratio(Len(final_key.value), p.num_bits)
                                      ELSE Zero,
                  secure_key_rate |-> secure_key_rate,
                  noise_model |-> noise_model,
                  eavesdropper_results |-> eve_results,
                  reconciliation_results |-> reconciliation_results]
            /\ response' = [sent |-> TRUE, output |-> Some(result'), error |-> "None"]
            /\ pc' = "returned"
    /\ UNCHANGED <<params, noise_model, theoretical_key_rate, genVars, loopVars,
                   siftVars, postVars, fn>>

ReturnResults == ReturnResultsWith(params)

Next ==
    \/ ApiRunPlugin
    \/ RunPluginNoMemory
    \/ CreateNoiseModel
    \/ TheoreticalKeyRate
    \/ AliceGenerates
    \/ BobGenerates
    \/ TransmitBit
    \/ EveIntercepts
    \/ AddNoise
    \/ BobMeasures
    \/ Sift
    \/ EavesdroppingSimulation
    \/ Reconciliation
    \/ PrivacyAmplification
    \/ SecureKeyRate
    \/ ReturnResults

Spec == Init /\ [][Next]_vars

\* a step of the run, had bb84_protocol_cirq been called with the arguments p
NextWith(p) ==
    \/ ApiRunPlugin
    \/ RunPluginNoMemory
    \/ CreateNoiseModelWith(p)
    \/ TheoreticalKeyRateWith(p)
    \/ AliceGeneratesWith(p)
    \/ BobGeneratesWith(p)
    \/ TransmitBitWith(p)
    \/ EveInterceptsWith(p)
    \/ AddNoiseWith(p)
    \/ BobMeasuresWith(p)
    \/ SiftWith(p)
    \/ EavesdroppingSimulationWith(p)
    \/ ReconciliationWith(p)
    \/ PrivacyAmplificationWith(p)
    \/ SecureKeyRateWith(p)
    \/ ReturnResultsWith(p)

(***************************************************************************)
(* The same run for requests whose "noise" field, passed on as noise_prob  *)
(* (app.py:448), takes several values of its range 0.0 to 0.3.             *)
(***************************************************************************)
NoiseProbs == {0, 10^8, 3 * 10^8}

NoiseRequests ==
    {[p EXCEPT !.noise_prob = q] : p \in Requests, q \in NoiseProbs}

InitNoiseProb ==
    /\ pc = "request"
    /\ params \in NoiseRequests
    /\ RunInit
    /\ fn = NoCall

SpecNoiseProb == InitNoiseProb /\ [][Next]_vars

(***************************************************************************)
(* The same run for a longer transmission over one channel: fiber at 0 km, *)
(* no eavesdropper.                                                        *)
(***************************************************************************)
LongRequests ==
    [num_bits : {MaxLongBits}, distance_km : {0}, hardware_type : {"fiber"},
     eve_present : {FALSE}, eve_strategy : {"intercept_resend"},
     detailed_simulation : BOOLEAN, noise_prob : {0},
     detector_dark_count : {DefaultDarkCount},
     perform_reconciliation : {TRUE}, perform_amplification : {TRUE}]

InitLongRun ==
    /\ pc = "request"
    /\ params \in LongRequests
    /\ RunInit
    /\ fn = NoCall

SpecLongRun == InitLongRun /\ [][Next]_vars

(***************************************************************************)
(* The pure functions called on their own: the arguments are drawn from    *)
(* bounded sets and one action applies the function.  No request is being  *)
(* served meanwhile.                                                       *)
(***************************************************************************)
runVars == <<pc, params, noise_model, theoretical_key_rate, genVars, loopVars,
             siftVars, postVars, result, response>>

NoRun ==
    /\ pc = "idle"
    /\ params = [idle |-> TRUE]
    /\ RunInit

Keys == SeqsUpTo(Bit, MaxKeyLen)

\* information_reconciliation(alice_key, bob_key, error_rate) for two keys of
\* one length and error_rate = num / den, den the length (1 for empty keys)
ReconciliationCalls ==
    {[name |-> "information_reconciliation", alice_key |-> t[1], bob_key |-> t[2],
      error_rate |-> Ratio(t[3], Max(1, Len(t[1]))), done |-> FALSE, ret |-> NoneValue] :
        t \in {u \in Keys \X Keys \X (0..MaxKeyLen) :
                  Len(u[1]) = Len(u[2]) /\ u[3] <= Max(1, Len(u[1]))}}

InitReconciliation ==
    /\ NoRun
    /\ fn \in ReconciliationCalls

CallInformationReconciliation ==
    /\ fn.name = "information_reconciliation"
    /\ ~fn.done
    /\ fn' = [fn EXCEPT !.done = TRUE,
                        !.ret = Some(information_reconciliation(fn.alice_key, fn.bob_key,
                                         fn.error_rate.num, fn.error_rate.den))]
    /\ UNCHANGED runVars

NextReconciliation == CallInformationReconciliation

SpecReconciliation == InitReconciliation /\ [][NextReconciliation]_vars

\* security margins 0, 0.1, 0.5 and 1
SecurityParameters == {Ratio(0, 1), Ratio(1, 10), Ratio(1, 2), Ratio(1, 1)}

\* privacy_amplification(reconciled_key, leaked_bits, security_parameter), and
\* a second call on the key the first one returned
AmplificationCalls ==
    [name : {"privacy_amplification"}, reconciled_key : Keys,
     leaked_bits : 0..MaxLeaked, security_parameter : SecurityParameters,
     calls : {0}, ret : {NoneValue}, ret2 : {NoneValue}]

InitAmplification ==
    /\ NoRun
    /\ fn \in AmplificationCalls

CallPrivacyAmplification ==
    /\ fn.name = "privacy_amplification"
    /\ fn.calls = 0
    /\ \E k \in privacy_amplification(fn.reconciled_key, fn.leaked_bits,
                                      fn.security_parameter) :
           fn' = [fn EXCEPT !.calls = 1, !.ret = Some(k)]
    /\ UNCHANGED runVars

CallPrivacyAmplificationAgain ==
    /\ fn.name = "privacy_amplification"
    /\ fn.calls = 1
    /\ \E k \in privacy_amplification(fn.ret.value, fn.leaked_bits,
                                      fn.security_parameter) :
           fn' = [fn EXCEPT !.calls = 2, !.ret2 = Some(k)]
    /\ UNCHANGED runVars

NextAmplification ==
    \/ CallPrivacyAmplification
    \/ CallPrivacyAmplificationAgain

SpecAmplification == InitAmplification /\ [][NextAmplification]_vars

(***************************************************************************)
(* simulate_eavesdropping called on its own, one action per statement      *)
(* group: the basis draws of line 102, one pass of the loop of lines       *)
(* 108-155 per bit, and the summary of lines 157-178.                      *)
(***************************************************************************)
EavesdroppingCalls ==
    {[name |-> "simulate_eavesdropping", alice_bits |-> t[1], alice_bases |-> t[2],
      eve_strategy |-> t[3], detection_probability |-> DETECTION_PROBABILITY,
      at |-> "eve_bases", eve_bases |-> <<>>, eve_measurements |-> <<>>,
      modified_states |-> <<>>, detection_events |-> <<>>, information_gain |-> 0,
      raised |-> "None", ret |-> NoneValue] :
        t \in {u \in SeqsUpTo(Bit, MaxEveKeyLen) \X SeqsUpTo(Basis, MaxEveKeyLen)
                         \X Strategies : Len(u[1]) = Len(u[2])}}

InitEavesdropping ==
    /\ NoRun
    /\ fn \in EavesdroppingCalls

\* lines 102-106
EveChoosesBases ==
    /\ fn.name = "simulate_eavesdropping"
    /\ fn.at = "eve_bases"
    /\ \E eve_bases \in RandomList(Basis, Len(fn.alice_bits)) :
           fn' = [fn EXCEPT !.eve_bases = eve_bases, !.at = "loop"]
    /\ UNCHANGED runVars

\* EveBit forwarding what Eve measured in place of modified_state
EveBitResendingMeasurement ==
    /\ fn.name = "simulate_eavesdropping"
    /\ fn.at = "loop"
    /\ Len(fn.eve_measurements) < Len(fn.alice_bits)
    /\ LET k == Len(fn.eve_measurements) + 1
       IN  \E o \in EveBitOutcomes(fn.eve_strategy, fn.alice_bits[k], fn.alice_bases[k],
                                    fn.eve_bases[k], fn.detection_probability) :
              fn' = [fn EXCEPT
                        !.eve_measurements = Append(@, o.eve_measurement),
                        !.modified_states = Append(@, o.eve_measurement),
                        !.detection_events = Append(@, o.detection),
                        !.information_gain = @ + o.gain]
    /\ UNCHANGED runVars

\* EveBit recording a fresh random outcome for Eve whatever her basis
EveBitMeasuringAtRandom ==
    /\ fn.name = "simulate_eavesdropping"
    /\ fn.at = "loop"
    /\ Len(fn.eve_measurements) < Len(fn.alice_bits)
    /\ LET k == Len(fn.eve_measurements) + 1
       IN  \E o \in EveBitOutcomes(fn.eve_strategy, fn.alice_bits[k], fn.alice_bases[k],
                                    fn.eve_bases[k], fn.detection_probability) :
           \E m \in Bit :
              fn' = [fn EXCEPT
                        !.eve_measurements = Append(@, m),
                        !.modified_states = Append(@, o.modified_state),
                        !.detection_events = Append(@, o.detection),
                        !.information_gain = @ + o.gain]
    /\ UNCHANGED runVars

\* lines 108-155: the pass for bit Len(eve_measurements)
EveBit ==
    /\ fn.name = "simulate_eavesdropping"
    /\ fn.at = "loop"
    /\ Len(fn.eve_measurements) < Len(fn.alice_bits)
    /\ LET k == Len(fn.eve_measurements) + 1
       IN  \E o \in EveBitOutcomes(fn.eve_strategy, fn.alice_bits[k], fn.alice_bases[k],
                                    fn.eve_bases[k], fn.detection_probability) :
              fn' = [fn EXCEPT
                        !.eve_measurements = Append(@, o.eve_measurement),
                        !.modified_states = Append(@, o.modified_state),
                        !.detection_events = Append(@, o.detection),
                        !.information_gain = @ + o.gain]
    /\ UNCHANGED runVars

\* EveReturns without the test of line 158: the leak ratio is always divided
EveReturnsAlwaysDividing ==
    /\ fn.name = "simulate_eavesdropping"
    /\ fn.at = "loop"
    /\ Len(fn.eve_measurements) = Len(fn.alice_bits)
    /\ LET n == Len(fn.alice_bits)
           detections == Cardinality({k \in 1..n : fn.detection_events[k]})
       IN  IF n = 0
           THEN fn' = [fn EXCEPT !.at = "done", !.raised = "ZeroDivisionError"]
           ELSE fn' = [fn EXCEPT !.at = "done", !.ret = Some(
                    [eve_bases |-> fn.eve_bases,
                     eve_measurements |-> fn.eve_measurements,
                     modified_states |-> fn.modified_states,
                     eve_detected |-> detections > 0,
                     detection_probability |->
                         IF detections > 0 THEN Ratio(detections, n) ELSE Zero,
                     information_leak_ratio |-> Ratio(fn.information_gain, n)])]
    /\ UNCHANGED runVars

\* lines 157-178: the leak ratio, the detection summary and the return
EveReturns ==
    /\ fn.name = "simulate_eavesdropping"
    /\ fn.at = "loop"
    /\ Len(fn.eve_measurements) = Len(fn.alice_bits)
    /\ LET n == Len(fn.alice_bits)
           detections == Cardinality({k \in 1..n : fn.detection_events[k]})
       IN  IF fn.eve_strategy # "none" /\ n = 0
           THEN fn' = [fn EXCEPT !.at = "done", !.raised = "ZeroDivisionError"]
           ELSE fn' = [fn EXCEPT !.at = "done", !.ret = Some(
                    [eve_bases |-> fn.eve_bases,
                     eve_measurements |-> fn.eve_measurements,
                     modified_states |-> fn.modified_states,
                     eve_detected |-> detections > 0,
                     detection_probability |->
                         IF detections > 0 THEN Ratio(detections, n) ELSE Zero,
                     information_leak_ratio |->
                         IF fn.eve_strategy # "none"
                         THEN Ratio(fn.information_gain, n) ELSE Zero])]
    /\ UNCHANGED runVars

NextEavesdropping ==
    \/ EveChoosesBases
    \/ EveBit
    \/ EveReturns

SpecEavesdropping == InitEavesdropping /\ [][NextEavesdropping]_vars

(***************************************************************************)
(* calculate_theoretical_key_rate called on its own.                       *)
(***************************************************************************)
KeyRateDistances == {0, 1, 2, 5, 7, 10, 20, 50, 100}

KeyRateCalls ==
    [name : {"calculate_theoretical_key_rate"}, distance_km : KeyRateDistances,
     hardware_type : HardwareTypes, eavesdropping : BOOLEAN,
     done : {FALSE}, ret : {NoneValue}]

InitKeyRate ==
    /\ NoRun
    /\ fn \in KeyRateCalls

CallCalculateTheoreticalKeyRate ==
    /\ fn.name = "calculate_theoretical_key_rate"
    /\ ~fn.done
    /\ fn' = [fn EXCEPT !.done = TRUE,
                        !.ret = Some(calculate_theoretical_key_rate(fn.distance_km,
                                         fn.hardware_type, fn.eavesdropping))]
    /\ UNCHANGED runVars

NextKeyRate == CallCalculateTheoreticalKeyRate

SpecKeyRate == InitKeyRate /\ [][NextKeyRate]_vars

(***************************************************************************)
(* create_hardware_noise_model called on its own.                          *)
(***************************************************************************)
\* detector_dark_count 0, 1e-7, the default 1e-6 and 1e-3
DarkCounts == {0, 100, DefaultDarkCount, 1000000}

NoiseModelDistances == KeyRateDistances \cup {-5}

NoiseModelCalls ==
    [name : {"create_hardware_noise_model"}, hardware_type : HardwareTypes,
     distance_km : NoiseModelDistances, detector_dark_count : DarkCounts,
     done : {FALSE}, ret : {NoneValue}]

InitNoiseModel ==
    /\ NoRun
    /\ fn \in NoiseModelCalls

CallCreateHardwareNoiseModel ==
    /\ fn.name = "create_hardware_noise_model"
    /\ ~fn.done
    /\ fn' = [fn EXCEPT !.done = TRUE,
                        !.ret = Some(create_hardware_noise_model(fn.hardware_type,
                                         fn.distance_km, fn.detector_dark_count))]
    /\ UNCHANGED runVars

NextNoiseModel == CallCreateHardwareNoiseModel

SpecNoiseModel == InitNoiseModel /\ [][NextNoiseModel]_vars

(***************************************************************************)
(* Two runs of bb84_protocol_cirq on two worker threads (run_plugin starts *)
(* each run on a thread of its own, app.py:105-133 and 219-225).  Both     *)
(* threads draw from the generator of the random module, which is one      *)
(* object for the whole process: a draw returns the next output of its     *)
(* stream and advances it, atomically.  The runs are followed through      *)
(* their first draws, alice_bits and alice_bases (lines 374-375).          *)
(***************************************************************************)
Threads == {1, 2}

\* the base a draw of random.choice(['Z', 'X']) gives for a generator output
ChoiceOf(x) == IF x = 0 THEN "Z" ELSE "X"

ConcurrentCalls ==
    [name : {"concurrent_runs"},
     stream : SeqsOf(Bit, 4 * MaxConcurrentBits),     \* the outputs to come
     generator : {0},                                 \* outputs consumed
     num_bits : [Threads -> 1..MaxConcurrentBits],
     first_draw : [Threads -> {None}],                \* generator at the first draw
     alice_bits : [Threads -> {<<>>}],
     alice_bases : [Threads -> {<<>>}],
     returned : [Threads -> {FALSE}]]

InitConcurrent ==
    /\ NoRun
    /\ fn \in ConcurrentCalls

\* line 374, one random.randint(0, 1) of thread t
ThreadDrawsBit(t) ==
    /\ Len(fn.alice_bits[t]) < fn.num_bits[t]
    /\ fn' = [fn EXCEPT
                 !.alice_bits[t] = Append(@, fn.stream[fn.generator + 1]),
                 !.first_draw[t] = IF @ = None THEN fn.generator ELSE @,
                 !.generator = @ + 1]

\* line 375, one random.choice(['Z', 'X']) of thread t
ThreadDrawsBasis(t) ==
    /\ Len(fn.alice_bits[t]) = fn.num_bits[t]
    /\ Len(fn.alice_bases[t]) < fn.num_bits[t]
    /\ fn' = [fn EXCEPT
                 !.alice_bases[t] = Append(@, ChoiceOf(fn.stream[fn.generator + 1])),
                 !.generator = @ + 1]

\* the run of thread t returns what it drew
ThreadReturns(t) ==
    /\ Len(fn.alice_bases[t]) = fn.num_bits[t]
    /\ ~fn.returned[t]
    /\ fn' = [fn EXCEPT !.returned[t] = TRUE]

ThreadSteps ==
    /\ fn.name = "concurrent_runs"
    /\ \E t \in Threads : ThreadDrawsBit(t) \/ ThreadDrawsBasis(t) \/ ThreadReturns(t)
    /\ UNCHANGED runVars

NextConcurrent == ThreadSteps

SpecConcurrent == InitConcurrent /\ [][NextConcurrent]_vars

(***************************************************************************)
(* The wrapper of timeout(seconds), app.py:105-133, around a function that *)
(* takes `duration` ticks of a clock (or never ends).  The function runs   *)
(* on the one worker of a ThreadPoolExecutor opened by a `with` statement: *)
(* both returns of the wrapper are inside the `with`, so the wrapper       *)
(* leaves through executor.__exit__, that is shutdown(wait=True), which    *)
(* joins the worker.                                                       *)
(***************************************************************************)
Never == -1

TimeoutError == [output |-> NoneValue, error |-> "Execution timed out"]

TimeoutCalls ==
    [name : {"timeout"}, seconds : 1..MaxSeconds,
     duration : (0..MaxDuration) \cup {Never},
     clock : {0}, worker : {"running"}, wrapper : {"future_result"},
     ret : {NoneValue}, returned_at : {None}]

InitTimeout ==
    /\ NoRun
    /\ fn \in TimeoutCalls

\* the wrapped function comes to its end on the worker thread
FuncFinishes ==
    /\ fn.name = "timeout"
    /\ fn.worker = "running"
    /\ fn.duration # Never /\ fn.clock >= fn.duration
    /\ fn' = [fn EXCEPT !.worker = "finished"]
    /\ UNCHANGED runVars

\* line 123: future.result(timeout=seconds) gives the function's result
FutureResult ==
    /\ fn.name = "timeout"
    /\ fn.wrapper = "future_result"
    /\ fn.worker = "finished"
    /\ fn' = [fn EXCEPT !.wrapper = "shutdown",
                        !.ret = Some([output |-> Some("result"), error |-> "None"])]
    /\ UNCHANGED runVars

\* lines 124-131: future.result raises TimeoutError after `seconds`; the
\* error record is the value to return
FutureTimesOut ==
    /\ fn.name = "timeout"
    /\ fn.wrapper = "future_result"
    /\ fn.worker = "running"
    /\ fn.clock >= fn.seconds
    /\ fn' = [fn EXCEPT !.wrapper = "shutdown", !.ret = Some(TimeoutError)]
    /\ UNCHANGED runVars

\* line 120, leaving the `with`: shutdown(wait=True) returns once the worker
\* has finished, and the wrapper returns
ExecutorShutdown ==
    /\ fn.name = "timeout"
    /\ fn.wrapper = "shutdown"
    /\ fn.worker = "finished"
    /\ fn' = [fn EXCEPT !.wrapper = "returned", !.returned_at = fn.clock]
    /\ UNCHANGED runVars

\* time passes while nothing else is due
Tick ==
    /\ fn.name = "timeout"
    /\ fn.wrapper # "returned"
    /\ fn.clock < MaxDuration + 1
    /\ ~ENABLED FuncFinishes
    /\ ~ENABLED FutureResult
    /\ ~ENABLED FutureTimesOut
    /\ ~ENABLED ExecutorShutdown
    /\ fn' = [fn EXCEPT !.clock = @ + 1]
    /\ UNCHANGED runVars

NextTimeout ==
    \/ FuncFinishes
    \/ FutureResult
    \/ FutureTimesOut
    \/ ExecutorShutdown
    \/ Tick

SpecTimeout == InitTimeout /\ [][NextTimeout]_vars

(***************************************************************************)
(* core/qubit.py: a Qubit and its operations.  An amplitude is a real in   *)
(* thousandths; the state is the pair of the amplitudes of |0> and |1>.    *)
(***************************************************************************)
\* normalized states, as __init__ leaves them (lines 8-14)
QubitStates ==
    {<<1000, 0>>, <<0, 1000>>, <<-1000, 0>>, <<0, -1000>>,
     <<600, 800>>, <<800, 600>>, <<600, -800>>, <<-800, 600>>,
     <<-600, 800>>, <<800, -600>>, <<-600, -800>>, <<-800, -600>>,
     <<960, 280>>, <<280, 960>>, <<-280, 960>>, <<960, -280>>,
     <<707, 707>>, <<707, -707>>, <<-707, 707>>, <<-707, -707>>}

QubitCalls ==
    [name : {"qubit"}, state : QubitStates, ops : {0},
     results : {<<>>}]     \* what measure() returned since the last gate

InitQubit ==
    /\ NoRun
    /\ fn \in QubitCalls

\* lines 24-28
ApplyHadamard ==
    /\ fn.name = "qubit"
    /\ fn.ops < MaxQubitOps
    /\ LET a == fn.state[1]
           b == fn.state[2]
       IN  fn' = [fn EXCEPT !.state = <<(707 * (a + b)) \div 1000,
                                       (707 * (a - b)) \div 1000>>,
                            !.ops = @ + 1, !.results = <<>>]
    /\ UNCHANGED runVars

\* measure() that returns the result and leaves the state as it was
MeasureWithoutCollapse ==
    /\ fn.name = "qubit"
    /\ fn.ops < MaxQubitOps
    /\ LET prob0 == fn.state[1] * fn.state[1] * 1000
       IN  \E zero \in Bernoulli(prob0) :
              fn' = [fn EXCEPT !.ops = @ + 1,
                               !.results = Append(@, IF zero THEN 0 ELSE 1)]
    /\ UNCHANGED runVars

\* lines 30-36; prob0 in parts per billion
Measure ==
    /\ fn.name = "qubit"
    /\ fn.ops < MaxQubitOps
    /\ LET prob0 == fn.state[1] * fn.state[1] * 1000
       IN  \E zero \in Bernoulli(prob0) :
              LET measured == IF zero THEN 0 ELSE 1
              IN  fn' = [fn EXCEPT
                            !.state = IF measured = 0 THEN <<1000, 0>> ELSE <<0, 1000>>,
                            !.ops = @ + 1,
                            !.results = Append(@, measured)]
    /\ UNCHANGED runVars

NextQubit ==
    \/ ApplyHadamard
    \/ Measure

SpecQubit == InitQubit /\ [][NextQubit]_vars

(***************************************************************************)
(* Properties.                                                             *)
(***************************************************************************)
Returned == result.returned

\* C1: in every result returned for num_bits >= 0, alice_bits has exactly
\* num_bits elements and the sifted key shared_key has between 0 and num_bits
\* elements.
C1_KeyLengths ==
    (Returned /\ params.num_bits >= 0) =>
        /\ Len(result.alice_bits) = params.num_bits
        /\ Len(result.shared_key) \in 0..params.num_bits

\* a two-bit run returned a sifted key of one bit
C1_Witness ==
    /\ Returned
    /\ params.num_bits = 2
    /\ Len(result.alice_bits) = 2
    /\ Len(result.shared_key) = 1

\* C2: in every result, matching_bases is the increasing list of exactly the
\* indices whose bases agree and whose photon was not lost; shared_key and the
\* receiver key before reconciliation are as long as matching_bases, and
\* shared_key[k] is Alice's bit at index matching_bases[k].
C2_Sifting ==
    Returned =>
        LET mb == result.matching_bases
            kept == {j \in Range(params.num_bits) :
                        /\ result.alice_bases[j + 1] = result.bob_bases[j + 1]
                        /\ bob_received_states[j + 1]
                        /\ result.bob_measurements[j + 1] # None}
        IN  /\ \A k \in 1..(Len(mb) - 1) : mb[k] < mb[k + 1]
            /\ {mb[k] : k \in 1..Len(mb)} = kept
            /\ Len(result.shared_key) = Len(mb)
            /\ Len(sifted_bob_key) = Len(mb)
            /\ \A k \in 1..Len(mb) :
                  result.shared_key[k] = result.alice_bits[mb[k] + 1]

\* a result where the bases of both bits agree, the photon of bit 0 was lost
\* and bit 1 was kept
C2_Witness ==
    /\ Returned
    /\ params.num_bits = 2
    /\ result.alice_bases = result.bob_bases
    /\ result.bob_measurements[1] = None
    /\ result.matching_bases = <<1>>

\* C3: in every result, error_rate is the number of positions where shared_key
\* and the receiver key before reconciliation differ, over the sifted length
\* (0 for an empty sifted key), so it lies in [0, 1], and eve_detected_by_qber
\* holds exactly when error_rate > 0.11.
C3_Qber ==
    Returned =>
        LET q == result.error_rate
            n == Len(result.shared_key)
            differing == {k \in 1..n : result.shared_key[k] # sifted_bob_key[k]}
        IN  /\ q.den > 0
            /\ q.num * n = Cardinality(differing) * q.den
            /\ n = 0 => q.num = 0
            /\ 0 <= q.num /\ q.num <= q.den
            /\ result.eve_detected_by_qber <=> (100 * q.num > 11 * q.den)

\* a result with one error among two sifted bits: QBER 0.5, above the threshold
C3_Witness ==
    /\ Returned
    /\ Len(result.shared_key) = 2
    /\ result.error_rate = Ratio(1, 2)
    /\ result.eve_detected_by_qber

\* the call of information_reconciliation has returned r
ReconciliationReturned == fn.name = "information_reconciliation" /\ fn.done

\* C4: for non-empty keys of one length and error_rate their true mismatch
\* fraction, remaining_error_rate <= error_rate, and final_key differs from
\* alice_key in no more positions than bob_key did.
C4_ReconciliationNeverWorsens ==
    (/\ ReconciliationReturned
     /\ fn.alice_key # <<>>
     /\ fn.error_rate = Ratio(Mismatches(fn.alice_key, fn.bob_key), Len(fn.alice_key))) =>
        LET r == fn.ret.value
        IN  /\ r.remaining_error_rate.num * fn.error_rate.den
                   <= fn.error_rate.num * r.remaining_error_rate.den
            /\ Cardinality({k \in 1..Len(fn.alice_key) : r.final_key[k] # fn.alice_key[k]})
                   <= Cardinality({k \in 1..Len(fn.alice_key) :
                                      fn.bob_key[k] # fn.alice_key[k]})

\* two errors in one block of two: the parities agree and both errors remain
C4_Witness ==
    /\ ReconciliationReturned
    /\ fn.alice_key = <<0, 0, 1, 1>>
    /\ fn.bob_key = <<1, 1, 1, 1>>
    /\ fn.error_rate = Ratio(2, 4)
    /\ fn.ret.value.remaining_error_rate = Ratio(2, 4)

\* the first call of privacy_amplification has returned
AmplificationReturned == fn.name = "privacy_amplification" /\ fn.calls >= 1

\* C5: the key privacy_amplification returns is no longer than the reconciled
\* key, and it is empty whenever leaked_bits >= the length of the reconciled key.
C5_EmptyWhenAllLeaked ==
    AmplificationReturned =>
        /\ Len(fn.ret.value) <= Len(fn.reconciled_key)
        /\ fn.leaked_bits >= Len(fn.reconciled_key) => fn.ret.value = <<>>

\* ceil(sp * n) for sp = num / den
CeilMargin(sp, n) == (sp.num * n + sp.den - 1) \div sp.den

\* C6: the key privacy_amplification returns has length
\* max(0, n - L - ceil(s * n)) for a reconciled key of length n, L leaked bits
\* and security margin s.
C6_OutputLength ==
    AmplificationReturned =>
        Len(fn.ret.value) =
            Max(0, Len(fn.reconciled_key) - fn.leaked_bits
                       - CeilMargin(fn.security_parameter, Len(fn.reconciled_key)))

\* C7: with leaked_bits = 0 and security_parameter = 0, privacy_amplification
\* returns a key as long as its input, and so does a second application to
\* that output.
C7_LengthPreserved ==
    (/\ fn.name = "privacy_amplification"
     /\ fn.leaked_bits = 0
     /\ fn.security_parameter = Ratio(0, 1)) =>
        /\ fn.calls >= 1 => Len(fn.ret.value) = Len(fn.reconciled_key)
        /\ fn.calls >= 2 => Len(fn.ret2.value) = Len(fn.ret.value)

\* both calls were made on a three-bit key with nothing leaked and no margin
C7_Witness ==
    /\ fn.name = "privacy_amplification"
    /\ fn.calls = 2
    /\ fn.leaked_bits = 0
    /\ fn.security_parameter = Ratio(0, 1)
    /\ Len(fn.reconciled_key) = 3
    /\ Len(fn.ret2.value) = 3

\* bb84_protocol_cirq has ended: it returned or raised
Ended == pc \in {"returned", "raised"}

\* C8: a run with num_bits = 0 (a known hardware class, a distance >= 0, any
\* eavesdropper setting) ends without an error, with every output sequence
\* empty and secure_key_rate 0.
C8_ZeroBits ==
    (/\ Ended
     /\ params.num_bits = 0
     /\ params.hardware_type \in KnownHardware
     /\ params.distance_km >= 0) =>
        /\ Returned
        /\ response.error = "None"
        /\ result.alice_bits = <<>> /\ result.alice_bases = <<>>
        /\ result.bob_bases = <<>> /\ result.bob_measurements = <<>>
        /\ result.matching_bases = <<>> /\ result.shared_key = <<>>
        /\ result.bob_key = <<>>
        /\ result.final_key \in {NoneValue, Some(<<>>)}
        /\ result.secure_key_rate = 0

\* C9: a request to POST /api/run/bb84 whose hardware_type is none of fiber,
\* satellite, trapped_ion (its other fields in range) is rejected with an
\* error: no result is returned for it.
C9_UnknownHardwareRejected ==
    (/\ params.hardware_type \notin KnownHardware
     /\ params.num_bits > 0
     /\ params.distance_km >= 0) =>
        /\ ~Returned
        /\ response.sent => response.error # "None"

\* C10: a run with negative num_bits or negative distance_km (and a known
\* hardware class) fails before any bit is simulated, and no result is
\* returned to the caller.
C10_NegativeInputsRejected ==
    (/\ params.num_bits < 0 \/ params.distance_km < 0
     /\ params.hardware_type \in KnownHardware) =>
        /\ alice_bits = <<>> /\ bob_measurements = <<>>
        /\ ~Returned
        /\ response.sent => response.output = NoneValue

\* the per-bit loop has ended and no exception left the function since
AfterLoop ==
    pc \in {"eavesdropping", "reconciliation", "amplification", "secure_key_rate",
            "assemble", "returned"}

\* the eavesdropper, noise and measurement steps of the loop body
BitSteps == {"eve", "noise", "measure"}

\* one step of the loop: the steps of bit i are entered from the photon-loss
\* draw alone and in the order eavesdropper, noise, measurement; an entry
\* written by the photon-loss draw is None and moves the loop to the next bit;
\* any other entry is written by the measurement step
LossDrawFirst ==
    /\ pc' = "eve" /\ pc # "eve" => pc = "loop" /\ i < params.num_bits /\ i' = i
    /\ pc' = "noise" /\ pc # "noise" => pc = "eve" /\ i' = i
    /\ pc' = "measure" /\ pc # "measure" => pc = "noise" /\ i' = i
    /\ pc \in BitSteps =>
          Len(bob_measurements) = i /\ Len(bob_received_states) = i
    /\ (pc = "loop" /\ bob_measurements' # bob_measurements) =>
          /\ bob_measurements' = Append(bob_measurements, None)
          /\ bob_received_states' = Append(bob_received_states, FALSE)
          /\ pc' = "loop" /\ i' = i + 1
    /\ (pc # "loop" /\ bob_measurements' # bob_measurements) =>
          /\ pc = "measure"
          /\ \E b \in Bit : bob_measurements' = Append(bob_measurements, b)
          /\ bob_received_states' = Append(bob_received_states, TRUE)

\* after the loop both lists have num_bits entries, and entry k of
\* bob_measurements is None exactly when photon k was lost, else a bit
LoopOutcome ==
    (AfterLoop /\ params.num_bits >= 0) =>
        /\ Len(bob_measurements) = params.num_bits
        /\ Len(bob_received_states) = params.num_bits
        /\ \A k \in 1..params.num_bits :
              /\ bob_measurements[k] = None <=> ~bob_received_states[k]
              /\ bob_measurements[k] # None => bob_measurements[k] \in Bit

\* C11: in the per-bit loop the photon-loss draw of bit i precedes every
\* eavesdropper, noise, dark-count and measurement step of bit i; a lost
\* photon skips those steps; after the loop bob_measurements and the received
\* flags have num_bits entries, bob_measurements[i] being None exactly when
\* photon i was lost and a bit otherwise.
C11_LossDrawPrecedes == [][LossDrawFirst]_vars /\ []LoopOutcome

\* a two-bit run past its loop: photon 0 was lost, photon 1 was measured
C11_Witness ==
    /\ AfterLoop
    /\ params.num_bits = 2
    /\ bob_received_states = <<FALSE, TRUE>>
    /\ bob_measurements[1] = None
    /\ bob_measurements[2] \in Bit

\* Bob has an outcome for some bit
BobHasMeasured == \E k \in 1..Len(bob_measurements) : bob_measurements[k] # None

\* C12: with eve_present, the eavesdropper simulation of a received bit (her
\* basis, her measurement, the state she forwards), as reported in
\* eavesdropper_results, has taken place before Bob measures that bit: once
\* Bob holds an outcome for bit k, eve_results holds Eve's basis and forwarded
\* state for bit k.
C12_EveActsBeforeBob ==
    (params.eve_present /\ BobHasMeasured) =>
        /\ ~eve_results.is_none
        /\ \A k \in 1..Len(bob_measurements) :
              bob_measurements[k] # None =>
                 /\ k <= Len(eve_results.value.eve_bases)
                 /\ k <= Len(eve_results.value.modified_states)

\* simulate_eavesdropping is being run on its own
InEavesdropping == fn.name = "simulate_eavesdropping"
EavesdroppingReturned == InEavesdropping /\ fn.at = "done" /\ ~fn.ret.is_none

\* C13: modified_states[i] equals alice_bits[i] unless the strategy is
\* intercept_resend and eve_bases[i] differs from alice_bases[i]; under
\* intercept_resend a detection event occurs only at a bit whose bases differ.
C13_DisturbanceOnlyOnMismatch ==
    InEavesdropping =>
        \A k \in 1..Len(fn.modified_states) :
            /\ fn.modified_states[k] # fn.alice_bits[k] =>
                   /\ fn.eve_strategy = "intercept_resend"
                   /\ fn.eve_bases[k] # fn.alice_bases[k]
            /\ (fn.eve_strategy = "intercept_resend" /\ fn.detection_events[k]) =>
                   fn.eve_bases[k] # fn.alice_bases[k]

\* intercept_resend on two bits: Eve's basis differs at bit 0, where the state
\* is disturbed and she is detected, and agrees at bit 1
C13_Witness ==
    /\ EavesdroppingReturned
    /\ fn.eve_strategy = "intercept_resend"
    /\ Len(fn.alice_bits) = 2
    /\ fn.eve_bases[1] # fn.alice_bases[1]
    /\ fn.modified_states[1] # fn.alice_bits[1]
    /\ fn.detection_events[1]
    /\ fn.eve_bases[2] = fn.alice_bases[2]
    /\ fn.ret.value.modified_states[2] = fn.alice_bits[2]

\* C14: eve_measurements[i] equals alice_bits[i] for every bit under
\* trojan_horse, and for every bit whose bases agree under intercept_resend
\* and beam_splitting; under trojan_horse with at least one bit the
\* information_leak_ratio is exactly 1.
C14_EveLearnsTheBit ==
    InEavesdropping =>
        /\ \A k \in 1..Len(fn.eve_measurements) :
              (\/ fn.eve_strategy = "trojan_horse"
               \/ /\ fn.eve_strategy \in {"intercept_resend", "beam_splitting"}
                  /\ fn.eve_bases[k] = fn.alice_bases[k]) =>
                 fn.eve_measurements[k] = fn.alice_bits[k]
        /\ (fn.at = "done" /\ fn.eve_strategy = "trojan_horse" /\ Len(fn.alice_bits) >= 1) =>
              /\ ~fn.ret.is_none
              /\ fn.ret.value.eve_measurements = fn.alice_bits
              /\ fn.ret.value.information_leak_ratio.num
                     = fn.ret.value.information_leak_ratio.den

\* trojan_horse on two bits returned with a leak ratio of 2 / 2
C14_Witness ==
    /\ EavesdroppingReturned
    /\ fn.eve_strategy = "trojan_horse"
    /\ Len(fn.alice_bits) = 2
    /\ fn.ret.value.information_leak_ratio = Ratio(2, 2)

\* C15: with strategy 'none', on any bit sequence, the empty one included,
\* simulate_eavesdropping returns: every forwarded state is the sender's bit,
\* no outcome of Eve is recorded, information_leak_ratio is 0, eve_detected is
\* false and detection_probability is 0.
C15_NonePassesThrough ==
    (InEavesdropping /\ fn.at = "done" /\ fn.eve_strategy = "none") =>
        /\ fn.raised = "None"
        /\ ~fn.ret.is_none
        /\ fn.ret.value.modified_states = fn.alice_bits
        /\ \A k \in 1..Len(fn.alice_bits) : fn.ret.value.eve_measurements[k] = None
        /\ Len(fn.ret.value.eve_measurements) = Len(fn.alice_bits)
        /\ fn.ret.value.information_leak_ratio.num = 0
        /\ ~fn.ret.value.eve_detected
        /\ fn.ret.value.detection_probability.num = 0

\* the call with strategy 'none' on the empty sequence has returned
C15_Witness ==
    /\ EavesdroppingReturned
    /\ fn.eve_strategy = "none"
    /\ fn.alice_bits = <<>>
    /\ fn.ret.value.modified_states = <<>>

KeyRateReturned == fn.name = "calculate_theoretical_key_rate" /\ fn.done

\* C16: calculate_theoretical_key_rate returns 0 whenever its estimated QBER
\* (polarization drift + phase drift + dark-count contribution, plus 0.15 with
\* eavesdropping, capped at 0.5) is 0.11 or more, and for every hardware
\* class, distance >= 0 and eavesdropping flag the rate is never negative.
C16_RateZeroAboveThreshold ==
    (KeyRateReturned /\ fn.distance_km >= 0) =>
        LET nm == create_hardware_noise_model(fn.hardware_type, fn.distance_km,
                                              DefaultDarkCount)
        IN  /\ EstimatedQber(nm, fn.eavesdropping) >= QBER_THRESHOLD => fn.ret.value = 0
            /\ fn.ret.value >= 0

\* fiber at 10 km without an eavesdropper: the drifts alone give an estimated
\* QBER of 0.15, and the rate is 0
C16_Witness ==
    /\ KeyRateReturned
    /\ fn.hardware_type = "fiber"
    /\ fn.distance_km = 10
    /\ ~fn.eavesdropping
    /\ EstimatedQber(create_hardware_noise_model("fiber", 10, DefaultDarkCount), FALSE)
           >= QBER_THRESHOLD
    /\ fn.ret.value = 0

\* C17: the secure_key_rate of a result is a function of distance_km,
\* hardware_type and eve_present alone: it is the value
\* calculate_theoretical_key_rate has at these three inputs, whatever the
\* draws, num_bits, eve_strategy, detailed_simulation and the measured QBER.
C17_RateDependsOnThreeInputs ==
    Returned =>
        result.secure_key_rate =
            calculate_theoretical_key_rate(params.distance_km, params.hardware_type,
                                           params.eve_present)

\* a result whose measured QBER is above the threshold and whose
\* secure_key_rate is positive all the same
C17_Witness ==
    /\ Returned
    /\ params.num_bits = 2
    /\ result.eve_detected_by_qber
    /\ result.secure_key_rate > 0

\* C18: in every run that performs both reconciliation and privacy
\* amplification, the leaked-bit estimate handed to privacy_amplification
\* counts the bits reconciliation consumed: it is at least bits_used.
C18_LeakedCountsBitsUsed ==
    (/\ Returned
     /\ ~result.reconciliation_results.is_none
     /\ ~result.final_key.is_none) =>
        leaked_bits >= result.reconciliation_results.value.bits_used

\* C19: information_reconciliation called with an empty sifted key raises
\* nothing and returns success = true, corrected_bits = 0, bits_used = 0 and
\* an empty final_key.
C19_EmptyKeySucceeds ==
    (ReconciliationReturned /\ fn.alice_key = <<>>) =>
        /\ ~fn.ret.is_none
        /\ fn.ret.value.success
        /\ fn.ret.value.corrected_bits = 0
        /\ fn.ret.value.bits_used = 0
        /\ fn.ret.value.final_key = <<>>

\* C20: information_reconciliation called with non-empty keys and
\* error_rate = 0 returns bits_used = 0, corrected_bits = 0 and a final_key
\* equal, bit for bit, to the bob_key that was passed in.
C20_ZeroRateKeepsBobKey ==
    (ReconciliationReturned /\ fn.alice_key # <<>> /\ fn.error_rate.num = 0) =>
        /\ fn.ret.value.bits_used = 0
        /\ fn.ret.value.corrected_bits = 0
        /\ fn.ret.value.final_key = fn.bob_key

\* the steps that call create_hardware_noise_model: line 365, and line 302
\* within the calls of calculate_theoretical_key_rate at lines 370 and 564
DerivesNoiseModel == CreateNoiseModel \/ TheoreticalKeyRate \/ SecureKeyRate

\* the steps that call calculate_theoretical_key_rate: lines 370 and 564
InvokesKeyRateEstimator == TheoreticalKeyRate \/ SecureKeyRate

\* the stage a position of bb84_protocol_cirq belongs to: 1 noise-model
\* derivation, 2 per-bit channel simulation, 3 sifting/QBER, 4 reconciliation,
\* 5 privacy amplification, 6 key-rate estimation, 7 result assembly
StageAt ==
    [p \in {"create_noise_model", "theoretical_key_rate", "alice_generates",
            "bob_generates", "loop", "eve", "noise", "measure", "eavesdropping",
            "reconciliation", "amplification", "secure_key_rate", "assemble",
            "returned"} |->
        CASE p = "create_noise_model" -> 1
          [] p \in {"alice_generates", "bob_generates", "loop", "eve", "noise",
                    "measure"} -> 2
          [] p = "eavesdropping" -> 3
          [] p = "reconciliation" -> 4
          [] p = "amplification" -> 5
          [] p \in {"theoretical_key_rate", "secure_key_rate"} -> 6
          [] p \in {"assemble", "returned"} -> 7]

\* one step of a run that keeps the order of the stages
StagesInOrder ==
    /\ (pc \in DOMAIN StageAt /\ pc' \in DOMAIN StageAt) => StageAt[pc] <= StageAt[pc']
    /\ DerivesNoiseModel => CreateNoiseModel
    /\ InvokesKeyRateEstimator => (i >= params.num_bits /\ pc = "secure_key_rate")

\* C21: the stages of a run execute in the order noise-model derivation,
\* per-bit channel simulation, sifting/QBER, reconciliation, privacy
\* amplification, key-rate estimation, result assembly; the noise model is
\* derived exactly once, and the key-rate estimator is not invoked before the
\* per-bit channel simulation has finished.
C21_StagesInOrder == [][StagesInOrder]_vars

\* what a run of n bits draws when it consumes the generator alone from
\* state g: n bits, then n bases
DrawsAlone(stream, g, n) ==
    [alice_bits |-> [k \in 1..n |-> stream[g + k]],
     alice_bases |-> [k \in 1..n |-> ChoiceOf(stream[g + n + k])]]

\* C22: two runs on two worker threads share no mutable state: the random
\* values a run consumes, and so what it returns, are those it draws from the
\* generator state it started with, however its steps interleave with the
\* steps of the other run.
C22_RunsShareNoState ==
    fn.name = "concurrent_runs" =>
        \A t \in Threads :
            fn.returned[t] =>
                LET alone == DrawsAlone(fn.stream, fn.first_draw[t], fn.num_bits[t])
                IN  /\ fn.alice_bits[t] = alone.alice_bits
                    /\ fn.alice_bases[t] = alone.alice_bases

\* C23: when the wrapped function runs longer than the limit, it is
\* terminated and the wrapper returns the timeout error record at the
\* deadline, without waiting for the function: past the deadline the function
\* no longer runs and the wrapper has returned, at a time no later than
\* `seconds`.
C23_TimeoutReturnsAtDeadline ==
    fn.name = "timeout" =>
        /\ fn.wrapper = "returned" => fn.returned_at <= fn.seconds
        /\ fn.clock > fn.seconds =>
              /\ fn.worker # "running"
              /\ fn.wrapper = "returned"

\* C24: measure() returns 0 or 1 and leaves the qubit in the basis state of
\* the value returned, [1.0, 0.0] for 0 and [0.0, 1.0] for 1; a measure()
\* that follows returns the same value.
C24_MeasureCollapses ==
    (fn.name = "qubit" /\ fn.results # <<>>) =>
        LET n == Len(fn.results)
        IN  /\ \A k \in 1..n : fn.results[k] \in Bit
            /\ fn.results[n] = 0 => fn.state = <<1000, 0>>
            /\ fn.results[n] = 1 => fn.state = <<0, 1000>>
            /\ \A k \in 1..n : fn.results[k] = fn.results[1]

\* Qubit([0.6, 0.8]) measured twice, 1 both times
C24_Witness ==
    /\ fn.name = "qubit"
    /\ fn.ops = 2
    /\ fn.results = <<1, 1>>
    /\ fn.state = <<0, 1000>>

\* C25: with error_rate > 0 the key is cut into contiguous blocks of
\* max(1, floor(1 / error_rate)) bits.  In every block whose parities differ
\* exactly one bit of the receiver's key is changed, a bit that was wrong and
\* is right afterwards; in a block whose parities agree no bit is changed.
\* So corrected_bits is the number of blocks whose parities differ, and it is
\* the number of errors before minus the number of errors after.
C25_OneFixPerMismatchedBlock ==
    (/\ ReconciliationReturned
     /\ fn.alice_key # <<>>
     /\ fn.error_rate.num > 0) =>
        LET r == fn.ret.value
            n == Len(fn.alice_key)
            block_size == Max(1, fn.error_rate.den \div fn.error_rate.num)
            starts == {b \in 0..(n - 1) : b % block_size = 0}
            Block(b) == (b + 1)..Min(b + block_size, n)
            Differ(b) ==
                Cardinality({k \in Block(b) : fn.alice_key[k] = 1}) % 2
                    # Cardinality({k \in Block(b) : fn.bob_key[k] = 1}) % 2
            Changed(b) == {k \in Block(b) : r.final_key[k] # fn.bob_key[k]}
        IN  /\ Len(r.final_key) = n
            /\ \A b \in starts :
                  IF Differ(b)
                  THEN /\ Cardinality(Changed(b)) = 1
                       /\ \A k \in Changed(b) :
                             /\ fn.bob_key[k] # fn.alice_key[k]
                             /\ r.final_key[k] = fn.alice_key[k]
                  ELSE Changed(b) = {}
            /\ r.corrected_bits = Cardinality({b \in starts : Differ(b)})
            /\ r.corrected_bits = Mismatches(fn.alice_key, fn.bob_key)
                                     - Mismatches(fn.alice_key, r.final_key)

\* blocks of two: the first holds two errors and is left alone, the second
\* holds one and is corrected
C25_Witness ==
    /\ ReconciliationReturned
    /\ fn.alice_key = <<0, 0, 1, 1>>
    /\ fn.bob_key = <<1, 1, 1, 0>>
    /\ fn.error_rate = Ratio(2, 4)
    /\ fn.ret.value.final_key = <<1, 1, 1, 1>>
    /\ fn.ret.value.corrected_bits = 1

\* the step in which privacy_amplification is called (lines 547-556)
AmplificationPerformed ==
    /\ pc = "amplification"
    /\ pc' = "secure_key_rate"
    /\ ~final_key'.is_none

\* C26: the leaked-bit estimate given to privacy_amplification is
\* floor(information_leak_ratio * sifted length) whenever eve_present, and
\* floor(2 * QBER * sifted length) otherwise, which is 0 when the QBER is 0;
\* the key given to it is the receiver's key as reconciliation left it,
\* whenever reconciliation was performed.
C26_LeakEstimateAndKey ==
    [][AmplificationPerformed =>
          LET n == Len(shared_key)
              leak == eve_results.value.information_leak_ratio
              estimate == IF params.eve_present
                          THEN (leak.num * n) \div leak.den
                          ELSE (2 * errors * n) \div n
              key == IF reconciliation_results.is_none THEN bob_key
                     ELSE reconciliation_results.value.final_key
          IN  /\ leaked_bits' = estimate
              /\ errors = 0 /\ ~params.eve_present => leaked_bits' = 0
              /\ final_key'.value \in privacy_amplification(key, estimate, SECURITY_PARAMETER)
              /\ ~reconciliation_results.is_none]_vars

\* an eavesdropper was simulated, the sifted bit is wrong and was corrected,
\* and the key has been amplified with no bit counted as leaked
C26_Witness ==
    /\ pc = "secure_key_rate"
    /\ params.eve_present
    /\ errors = 1
    /\ reconciliation_results.value.corrected_bits = 1
    /\ bob_key # sifted_bob_key
    /\ eve_results.value.information_leak_ratio.num = 0
    /\ leaked_bits = 0
    /\ ~final_key.is_none

C28_NoRateUnderEavesdropping ==
    (Returned /\ params.eve_present /\ params.distance_km >= 0) =>
        /\ result.secure_key_rate = 0
        /\ \A h \in HardwareTypes, d \in KeyRateDistances :
              /\ EstimatedQber(create_hardware_noise_model(h, d, DefaultDarkCount), TRUE)
                     >= QBER_THRESHOLD
              /\ calculate_theoretical_key_rate(d, h, TRUE) = 0

\* fiber at 0 km, where the rate without an eavesdropper is positive: with a
\* beam-splitting eavesdropper the result carries secure_key_rate 0
C28_Witness ==
    /\ Returned
    /\ params.eve_present
    /\ params.eve_strategy = "beam_splitting"
    /\ params.hardware_type = "fiber"
    /\ params.distance_km = 0
    /\ calculate_theoretical_key_rate(0, "fiber", FALSE) > 0
    /\ result.secure_key_rate = 0

\* an eavesdropper with the intercept_resend strategy is simulated
InterceptResend == params.eve_present /\ params.eve_strategy = "intercept_resend"

\* C29: under intercept_resend simulate_eavesdropping returns
\* information_leak_ratio = 0 in every run, so that bb84_protocol_cirq with
\* eve_present and intercept_resend gives privacy_amplification
\* leaked_bits = 0, whatever the measured QBER.
C29_InterceptResendLeaksNothing ==
    /\ [](InterceptResend =>
             /\ ~eve_results.is_none => eve_results.value.information_leak_ratio.num = 0
             /\ leaked_bits = 0)
    /\ [][(InterceptResend /\ AmplificationPerformed) =>
             final_key'.value \in privacy_amplification(bob_key, 0, SECURITY_PARAMETER)]_vars

\* the only sifted bit was wrong, a QBER of 1, and the key was amplified with
\* leaked_bits = 0
C29_Witness ==
    /\ Returned
    /\ InterceptResend
    /\ result.error_rate = Ratio(1, 1)
    /\ result.eve_detected_by_qber
    /\ result.eavesdropper_results.value.information_leak_ratio = Ratio(0, 1)
    /\ ~result.final_key.is_none
    /\ leaked_bits = 0

NoiseModelReturned == fn.name = "create_hardware_noise_model" /\ fn.done

\* C30: create_hardware_noise_model takes dark_count_probability from the
\* detector_dark_count argument only for fiber, and for unknown classes, which
\* get the fiber model; for satellite and trapped_ion it is the constant of the
\* class (1e-7, 1e-8) whatever the argument.  Every parameter of the
\* trapped_ion model is the same at every distance_km.
C30_DarkCountOverrideOnlyForFiber ==
    NoiseModelReturned =>
        LET nm == fn.ret.value
        IN  /\ fn.hardware_type \notin {"satellite", "trapped_ion"} =>
                  /\ nm.dark_count_probability = fn.detector_dark_count
                  /\ nm = create_hardware_noise_model("fiber", fn.distance_km,
                                                      fn.detector_dark_count)
            /\ fn.hardware_type = "satellite" => nm.dark_count_probability = 100
            /\ fn.hardware_type = "trapped_ion" =>
                  /\ nm.dark_count_probability = 10
                  /\ \A d \in NoiseModelDistances, c \in DarkCounts :
                        create_hardware_noise_model("trapped_ion", d, c) = nm

\* trapped_ion at 50 km called with detector_dark_count = 1e-3
C30_Witness ==
    /\ NoiseModelReturned
    /\ fn.hardware_type = "trapped_ion"
    /\ fn.distance_km = 50
    /\ fn.detector_dark_count = 1000000
    /\ fn.ret.value.dark_count_probability = 10

=============================================================================
